---- MODULE Spec2Model ----
(***************************************************************************)
(* Gossip broadcast node of src/src/bin/broadcast.rs: the value store and  *)
(* cursor table (State), the timer-driven propagation round                *)
(* (update_neighbours), the generation counter with its watch channel      *)
(* (wait_update) and the request handlers of Node::process.                *)
(***************************************************************************)
EXTENDS Integers, Sequences, FiniteSets, TLC

\* ------------------------------------------------------------------ bounds
\* Values a client may submit are 1..MaxValue.
MaxValue == 2
\* Broadcast requests accepted over a run.
MaxBroadcasts == 2
\* Propagation rounds the timers start over a run (all nodes together).
MaxRounds == 3
\* Transfer RPCs the network fails over a run.
MaxFailures == 2
\* Read requests and Topology requests accepted over a run.
MaxReads == 1
MaxTopologies == 1

Values == 1..MaxValue

Range(q) == {q[i] : i \in 1..Len(q)}

IsPrefix(p, q) == Len(p) <= Len(q) /\ SubSeq(q, 1, Len(p)) = p

\* Number of positions of q holding v.
Count(q, v) == Cardinality({i \in 1..Len(q) : q[i] = v})

\* Position of the first v in q (0 when absent).
IndexOf(q, v) ==
    IF v \in Range(q) THEN CHOOSE i \in 1..Len(q) :
                               q[i] = v /\ \A j \in 1..(i - 1) : q[j] # v
    ELSE 0

\* ------------------------------------------------------------------- State
\* #[derive(Default)] struct State
DefaultState ==
    [messages |-> {}, messages_list |-> <<>>,
     already_send |-> <<>>, neighbours |-> <<>>]

\* Mutant of Insert: no membership test before the push.
InsertAlways(st, value) ==
    [st EXCEPT !.messages = @ \cup {value},
               !.messages_list = Append(@, value)]

\* State::insert
Insert(st, value) ==
    IF value \in st.messages
    THEN st
    ELSE [st EXCEPT !.messages = @ \cup {value},
                    !.messages_list = Append(@, value)]

\* Mutant of InsertAll: the loop skips the first message of the payload.
RECURSIVE InsertAllButFirst(_, _)
InsertAllButFirst(st, ms) ==
    IF Len(ms) <= 1 THEN st
    ELSE InsertAllButFirst(Insert(st, ms[2]), Tail(ms))

\* for m in messages { state.insert(m) }
RECURSIVE InsertAll(_, _)
InsertAll(st, ms) ==
    IF ms = <<>> THEN st ELSE InsertAll(Insert(st, Head(ms)), Tail(ms))

\* The elements of set in ascending order.
RECURSIVE Ascending(_)
Ascending(set) ==
    IF set = {} THEN <<>>
    ELSE LET least == CHOOSE x \in set : \A y \in set : x <= y
         IN  <<least>> \o Ascending(set \ {least})

\* Mutant of TakeAll: the reply is built from the set, not from the log.
TakeAllFromSet(st) == Ascending(st.messages)

\* State::take_all
TakeAll(st) == st.messages_list

\* self.already_send.get(node_id).unwrap_or(&0)
Watermark(st, node_id) ==
    IF node_id \in DOMAIN st.already_send THEN st.already_send[node_id] ELSE 0

\* Mutant of TakeNode: the whole log is returned, not the slice past drop_first.
TakeNodeWholeLog(st, node_id) ==
    <<Watermark(st, node_id), st.messages_list>>

\* Mutant of TakeNode: the watermark is ignored and the log is cut at 0.
TakeNodeFromStart(st, node_id) == <<0, st.messages_list>>

\* State::take_node: (drop_first, messages_list[drop_first..])
TakeNode(st, node_id) ==
    LET drop_first == Watermark(st, node_id)
    IN  <<drop_first,
          SubSeq(st.messages_list, drop_first + 1, Len(st.messages_list))>>

\* Mutant of UpdateNode: a neighbour with no entry yet is never given one.
UpdateNodeNoEntry(st, node_id, prev_len, len) ==
    IF node_id \in DOMAIN st.already_send
    THEN IF st.already_send[node_id] = prev_len
         THEN [st EXCEPT !.already_send[node_id] = @ + len]
         ELSE st
    ELSE st

\* State::update_node
UpdateNode(st, node_id, prev_len, len) ==
    IF node_id \in DOMAIN st.already_send
    THEN IF st.already_send[node_id] = prev_len
         THEN [st EXCEPT !.already_send[node_id] = @ + len]
         ELSE st
    ELSE IF prev_len = 0
         THEN [st EXCEPT !.already_send =
                  [k \in DOMAIN @ \cup {node_id} |->
                      IF k = node_id THEN len ELSE @[k]]]
         ELSE st

\* ------------------------------------------------------------ program state
VARIABLES
    peers,       \* peers[n]: what runtime.neighbours() yields at node n, in order
    limit,       \* the requests, rounds and failures this run is bounded by
    s,           \* s[n]: the State behind BroadcastHandler.s of node n
    generation,  \* generation[n]: the AtomicU64 BroadcastHandler.generation
    sender,      \* sender[n]: the value held by the watch channel
    task,        \* task[n]: position of the timer task inside update_neighbours
    net,         \* net[<<a, b>>]: the latest Update RPC from a to b
    handlers,    \* handlers[n]: the Broadcast handlers in progress at n
    reply,       \* the latest outcome of a Read or Topology request
    env,         \* requests accepted, rounds started and RPCs failed so far
    inserted,    \* history: values passed to insert at n, in first-call order
    attempted,   \* history: log positions carried by any Update sent on a link
    lastDone,    \* history: number of the last round that resolved all its RPCs
    outage       \* history: consecutive failed transfers on a link

vars == <<peers, limit, s, generation, sender, task, net, handlers, reply, env,
          inserted, attempted, lastDone, outage>>

\* Two nodes that are each other's only peer.
Pair == [n \in {"n1", "n2"} |-> IF n = "n1" THEN <<"n2">> ELSE <<"n1">>]

\* One node with two peers.
Star == [n \in {"n1", "n2", "n3"} |->
            IF n = "n1" THEN <<"n2", "n3">> ELSE <<>>]

\* A relay: n1 sends to n2, n2 sends to n3.
Chain == [n \in {"n1", "n2", "n3"} |->
            IF n = "n1" THEN <<"n2">> ELSE IF n = "n2" THEN <<"n3">> ELSE <<>>]

\* The runs explored: a cluster and what bounds the run.
Scenarios ==
    { [peers |-> Pair, rounds |-> MaxRounds, failures |-> MaxFailures,
       broadcasts |-> MaxBroadcasts, reads |-> 0, topologies |-> 0,
       idle |-> FALSE],
      [peers |-> Pair, rounds |-> MaxRounds - 2, failures |-> MaxFailures - 1,
       broadcasts |-> MaxBroadcasts, reads |-> MaxReads,
       topologies |-> MaxTopologies, idle |-> FALSE],
      [peers |-> Star, rounds |-> MaxRounds - 1, failures |-> MaxFailures - 1,
       broadcasts |-> MaxBroadcasts, reads |-> 0, topologies |-> 0,
       idle |-> FALSE],
      [peers |-> Chain, rounds |-> MaxRounds - 1, failures |-> MaxFailures - 1,
       broadcasts |-> MaxBroadcasts, reads |-> 0, topologies |-> 0,
       idle |-> FALSE] }

Nodes == DOMAIN peers

\* runtime.neighbours()
RuntimeNeighbours(n) == peers[n]

Links == UNION {{<<a, b>> : b \in Range(RuntimeNeighbours(a))} : a \in Nodes}

NoRpc == [st |-> "none", prev_len |-> 0, messages |-> <<>>]

Idle == [pc |-> "sleep", i |-> 0, next_generation |-> 0, rpcs |-> <<>>]

NoReply == [node |-> "", type |-> "none", messages |-> <<>>]

\* BroadcastHandler::new at every node of the cluster, before any request
Start(sc) ==
    /\ peers = sc.peers
    /\ limit = [k \in DOMAIN sc \ {"peers"} |-> sc[k]]
    /\ s = [n \in Nodes |-> DefaultState]
    /\ generation = [n \in Nodes |-> 0]
    /\ sender = [n \in Nodes |-> 0]
    /\ task = [n \in Nodes |-> Idle]
    /\ net = [l \in Links |-> NoRpc]
    /\ handlers = [n \in Nodes |-> {}]
    /\ reply = NoReply
    /\ env = [broadcasts |-> 0, failures |-> 0, rounds |-> 0,
              reads |-> 0, topologies |-> 0]
    /\ inserted = [n \in Nodes |-> <<>>]
    /\ attempted = [l \in Links |-> {}]
    /\ lastDone = [n \in Nodes |-> 0]
    /\ outage = [l \in Links |-> [fails |-> 0, due |-> {}, vals |-> {}]]

Init == \E sc \in Scenarios : Start(sc)

\* The tokio Mutex around State is held by an Update handler from its lock()
\* until its reply_ok has completed; every other user holds it for one statement.
LockFree(n) == \A l \in Links : l[2] = n => net[l].st # "handling"

\* BroadcastHandler::generation
Generation(n) == generation[n]

\* BroadcastHandler::next_generation: fetch_add(1) + 1
NextGeneration(n) == generation[n] + 1

\* Mutant of WaitOver: the wait ends at a generation equal to the baseline.
WaitOverOrEqual(ts, old) == ts >= old

\* the predicate of rec.wait_for in BroadcastHandler::wait_update
WaitOver(ts, old) == ts > old

\* history: the first-call order of the values handed to insert
Remember(log, ms) ==
    LET RECURSIVE Go(_, _)
        Go(acc, rest) ==
            IF rest = <<>> THEN acc
            ELSE Go(IF Head(rest) \in Range(acc) THEN acc
                    ELSE Append(acc, Head(rest)), Tail(rest))
    IN  Go(log, ms)

\* Node n still has something to propagate or somebody waiting for a round.
Pending(n) ==
    \/ \E h \in handlers[n] :
          h.pc = "waiting" /\ ~WaitOver(sender[n], h.generation)
    \/ \E m \in Range(RuntimeNeighbours(n)) :
          Watermark(s[n], m) < Len(s[n].messages_list)

\* ------------------------------------------------- update_neighbours (timer)
\* Mutant of StartRound: the round takes the generation without adding one,
\* and is not counted as a round of the run.
StartRoundNoIncrement(n) ==
    /\ task[n].pc = "sleep"
    /\ env.rounds < limit.rounds \/ (limit.idle /\ Pending(n))
    /\ \A l \in Links : l[1] = n => net[l].st \notin {"sent", "handling"}
    /\ task' = [task EXCEPT ![n] =
                  [pc |-> IF RuntimeNeighbours(n) = <<>> THEN "await" ELSE "send",
                   i |-> 1, next_generation |-> Generation(n),
                   rpcs |-> <<>>]]
    /\ UNCHANGED <<peers, limit, s, generation, sender, net, handlers, reply,
                   env, inserted, attempted, lastDone, outage>>

\* try_main's loop wakes from sleep and calls update_neighbours, whose first
\* statement is next_generation(). The RPCs of an abandoned round are resolved
\* by the network before the 1600 ms sleep is over.
StartRound(n) ==
    /\ task[n].pc = "sleep"
    /\ env.rounds < limit.rounds \/ (limit.idle /\ Pending(n))
    /\ \A l \in Links : l[1] = n => net[l].st \notin {"sent", "handling"}
    /\ generation' = [generation EXCEPT ![n] = NextGeneration(n)]
    /\ task' = [task EXCEPT ![n] =
                  [pc |-> IF RuntimeNeighbours(n) = <<>> THEN "await" ELSE "send",
                   i |-> 1, next_generation |-> NextGeneration(n),
                   rpcs |-> <<>>]]
    /\ env' = [env EXCEPT !.rounds = @ + 1]
    /\ UNCHANGED <<peers, limit, s, sender, net, handlers, reply,
                   inserted, attempted, lastDone, outage>>

\* history kept per link when a new transfer is snapshotted: the failed
\* transfers in a row before it, and the values submitted during them.
OutageAtSend(o, old) ==
    IF old.st = "fail"
    THEN [fails |-> o.fails + 1, due |-> o.due \cup o.vals, vals |-> {}]
    ELSE [fails |-> 0, due |-> {}, vals |-> {}]

\* first loop, one neighbour: take_node under the lock, then runtime.rpc
SendRpc(n) ==
    /\ task[n].pc = "send"
    /\ LockFree(n)
    /\ LET m == RuntimeNeighbours(n)[task[n].i]
           tn == TakeNode(s[n], m)
           prev_len == tn[1]
           messages == tn[2]
           last == task[n].i = Len(RuntimeNeighbours(n))
       IN  /\ net' = [net EXCEPT ![<<n, m>>] =
                        [st |-> "sent", prev_len |-> prev_len,
                         messages |-> messages]]
           /\ task' = [task EXCEPT
                         ![n].rpcs = Append(@, [n |-> m, prev_len |-> prev_len,
                                                len |-> Len(messages)]),
                         ![n].i = IF last THEN 1 ELSE @ + 1,
                         ![n].pc = IF last THEN "await" ELSE "send"]
           /\ attempted' = [attempted EXCEPT ![<<n, m>>] =
                              @ \cup (prev_len + 1 .. prev_len + Len(messages))]
           /\ outage' = [outage EXCEPT ![<<n, m>>] =
                           OutageAtSend(@, net[<<n, m>>])]
    /\ UNCHANGED <<peers, limit, s, generation, sender, handlers, reply, env,
                   inserted, lastDone>>

\* first loop: runtime.rpc(..).await? returns the error and ends the round
SendRpcErr(n) ==
    /\ task[n].pc = "send"
    /\ LockFree(n)
    /\ env.failures < limit.failures
    /\ LET m == RuntimeNeighbours(n)[task[n].i]
           tn == TakeNode(s[n], m)
       IN  /\ net' = [net EXCEPT ![<<n, m>>] =
                        [st |-> "fail", prev_len |-> tn[1], messages |-> tn[2]]]
           /\ outage' = [outage EXCEPT ![<<n, m>>] =
                           OutageAtSend(@, net[<<n, m>>])]
    /\ task' = [task EXCEPT ![n] = Idle]
    /\ env' = [env EXCEPT !.failures = @ + 1]
    /\ UNCHANGED <<peers, limit, s, generation, sender, handlers, reply,
                   inserted, attempted, lastDone>>

\* second loop, one entry of rpcs: rpc.await is Ok, then update_node
AwaitRpcOk(n) ==
    /\ task[n].pc = "await"
    /\ task[n].i <= Len(task[n].rpcs)
    /\ LET r == task[n].rpcs[task[n].i]
       IN  /\ net[<<n, r.n>>].st = "ok"
           /\ LockFree(n)
           /\ s' = [s EXCEPT ![n] = UpdateNode(@, r.n, r.prev_len, r.len)]
    /\ task' = [task EXCEPT ![n].i = @ + 1]
    /\ UNCHANGED <<peers, limit, generation, sender, net, handlers, reply, env,
                   inserted, attempted, lastDone, outage>>

\* Mutant of AwaitRpcErr: update_node runs before the error is returned.
AwaitRpcErrAdvance(n) ==
    /\ task[n].pc = "await"
    /\ task[n].i <= Len(task[n].rpcs)
    /\ LET r == task[n].rpcs[task[n].i]
       IN  /\ net[<<n, r.n>>].st = "fail"
           /\ s' = [s EXCEPT ![n] = UpdateNode(@, r.n, r.prev_len, r.len)]
    /\ task' = [task EXCEPT ![n] = Idle]
    /\ UNCHANGED <<peers, limit, generation, sender, net, handlers, reply,
                   env, inserted, attempted, lastDone, outage>>

\* second loop: rpc.await? returns the error and ends the round
AwaitRpcErr(n) ==
    /\ task[n].pc = "await"
    /\ task[n].i <= Len(task[n].rpcs)
    /\ net[<<n, task[n].rpcs[task[n].i].n>>].st = "fail"
    /\ task' = [task EXCEPT ![n] = Idle]
    /\ UNCHANGED <<peers, limit, s, generation, sender, net, handlers, reply,
                   env, inserted, attempted, lastDone, outage>>

\* self.sender.send(next_generation); Ok(())
Notify(n) ==
    /\ task[n].pc = "await"
    /\ task[n].i > Len(task[n].rpcs)
    /\ sender' = [sender EXCEPT ![n] = task[n].next_generation]
    /\ lastDone' = [lastDone EXCEPT ![n] = task[n].next_generation]
    /\ task' = [task EXCEPT ![n] = Idle]
    /\ UNCHANGED <<peers, limit, s, generation, net, handlers, reply, env,
                   inserted, attempted, outage>>

\* --------------------------------------------------------------- the network
\* The request never reaches b, or no reply comes back in time: the future
\* of the RPC resolves to an error.
RequestLost(a, b) ==
    /\ net[<<a, b>>].st = "sent"
    /\ env.failures < limit.failures
    /\ net' = [net EXCEPT ![<<a, b>>].st = "fail"]
    /\ env' = [env EXCEPT !.failures = @ + 1]
    /\ UNCHANGED <<peers, limit, s, generation, sender, task, handlers, reply,
                   inserted, attempted, lastDone, outage>>

\* ------------------------------------------------------------- Node::process
\* Request::Update: lock, insert every message; the guard lives until
\* reply_ok has completed
UpdateInsert(a, b) ==
    /\ net[<<a, b>>].st = "sent"
    /\ LockFree(b)
    /\ s' = [s EXCEPT ![b] = InsertAll(@, net[<<a, b>>].messages)]
    /\ inserted' = [inserted EXCEPT ![b] = Remember(@, net[<<a, b>>].messages)]
    /\ net' = [net EXCEPT ![<<a, b>>].st = "handling"]
    /\ UNCHANGED <<peers, limit, generation, sender, task, handlers, reply, env,
                   attempted, lastDone, outage>>

\* Request::Update: runtime.reply_ok(req) completes and update_ok reaches a
UpdateReplyOk(a, b) ==
    /\ net[<<a, b>>].st = "handling"
    /\ net' = [net EXCEPT ![<<a, b>>].st = "ok"]
    /\ UNCHANGED <<peers, limit, s, generation, sender, task, handlers, reply,
                   env, inserted, attempted, lastDone, outage>>

\* Request::Update: reply_ok returns, but update_ok never reaches a
UpdateReplyLost(a, b) ==
    /\ net[<<a, b>>].st = "handling"
    /\ env.failures < limit.failures
    /\ net' = [net EXCEPT ![<<a, b>>].st = "fail"]
    /\ env' = [env EXCEPT !.failures = @ + 1]
    /\ UNCHANGED <<peers, limit, s, generation, sender, task, handlers, reply,
                   inserted, attempted, lastDone, outage>>

\* Request::Broadcast: self.s.lock().await.insert(message)
BroadcastInsert(n, message) ==
    /\ env.broadcasts < limit.broadcasts
    /\ LockFree(n)
    /\ s' = [s EXCEPT ![n] = Insert(@, message)]
    /\ inserted' = [inserted EXCEPT ![n] = Remember(@, <<message>>)]
    /\ handlers' = [handlers EXCEPT ![n] = @ \cup
                      {[message |-> message, pc |-> "inserted",
                        generation |-> 0]}]
    /\ env' = [env EXCEPT !.broadcasts = @ + 1]
    /\ outage' = [l \in Links |->
                    IF l[1] = n
                    THEN [outage[l] EXCEPT !.vals = @ \cup {message}]
                    ELSE outage[l]]
    /\ UNCHANGED <<peers, limit, generation, sender, task, net, reply,
                   attempted, lastDone>>

\* Request::Broadcast: let generation = self.generation()
BroadcastGeneration(n, h) ==
    /\ h \in handlers[n]
    /\ h.pc = "inserted"
    /\ handlers' = [handlers EXCEPT ![n] = (@ \ {h}) \cup
                      {[h EXCEPT !.pc = "waiting",
                                 !.generation = Generation(n)]}]
    /\ UNCHANGED <<peers, limit, s, generation, sender, task, net, reply, env,
                   inserted, attempted, lastDone, outage>>

\* Request::Broadcast: wait_update(generation) returns, then reply_ok
BroadcastReply(n, h) ==
    /\ h \in handlers[n]
    /\ h.pc = "waiting"
    /\ WaitOver(sender[n], h.generation)
    /\ handlers' = [handlers EXCEPT ![n] = @ \ {h}]
    /\ UNCHANGED <<peers, limit, s, generation, sender, task, net, reply, env,
                   inserted, attempted, lastDone, outage>>

\* Request::Read: take_all under the lock, then reply read_ok
Read(n) ==
    /\ env.reads < limit.reads
    /\ LockFree(n)
    /\ reply' = [node |-> n, type |-> "read_ok", messages |-> TakeAll(s[n])]
    /\ env' = [env EXCEPT !.reads = @ + 1]
    /\ UNCHANGED <<peers, limit, s, generation, sender, task, net, handlers,
                   inserted, attempted, lastDone, outage>>

\* HashMap::insert(k, _): the value k had before, as an Option
MapInsert(map, k) == IF k \in DOMAIN map THEN <<map[k]>> ELSE <<>>

\* The mappings a Topology request may carry to node n: every node with its
\* peers, every node with an empty list, and one with no entry for n.
TopologyInputs(n) ==
    { [m \in Nodes |-> peers[m]],
      [m \in Nodes |-> <<>>],
      [m \in Nodes \ {n} |-> peers[m]] }

\* Request::Topology: topology.insert(node_id, vec![]).unwrap() is evaluated
\* first, then stored in neighbours under the lock; then reply_ok
TopologyStore(n, topology) ==
    /\ env.topologies < limit.topologies
    /\ MapInsert(topology, n) # <<>>
    /\ LockFree(n)
    /\ s' = [s EXCEPT ![n].neighbours = MapInsert(topology, n)[1]]
    /\ reply' = [node |-> n, type |-> "topology_ok", messages |-> <<>>]
    /\ env' = [env EXCEPT !.topologies = @ + 1]
    /\ UNCHANGED <<peers, limit, generation, sender, task, net, handlers,
                   inserted, attempted, lastDone, outage>>

\* Request::Topology: unwrap() of None panics; the handler ends there
TopologyPanic(n, topology) ==
    /\ env.topologies < limit.topologies
    /\ MapInsert(topology, n) = <<>>
    /\ reply' = [node |-> n, type |-> "panic", messages |-> <<>>]
    /\ env' = [env EXCEPT !.topologies = @ + 1]
    /\ UNCHANGED <<peers, limit, s, generation, sender, task, net, handlers,
                   inserted, attempted, lastDone, outage>>

\* The timer tasks, the network and the handlers that feed the value store.
Propagate ==
    \/ \E n \in Nodes : StartRound(n)
    \/ \E n \in Nodes : SendRpc(n)
    \/ \E n \in Nodes : SendRpcErr(n)
    \/ \E n \in Nodes : AwaitRpcOk(n)
    \/ \E n \in Nodes : AwaitRpcErr(n)
    \/ \E n \in Nodes : Notify(n)
    \/ \E l \in Links : RequestLost(l[1], l[2])
    \/ \E l \in Links : UpdateInsert(l[1], l[2])
    \/ \E l \in Links : UpdateReplyOk(l[1], l[2])
    \/ \E l \in Links : UpdateReplyLost(l[1], l[2])
    \/ \E n \in Nodes, v \in Values : BroadcastInsert(n, v)
    \/ \E n \in Nodes : \E h \in handlers[n] : BroadcastGeneration(n, h)
    \/ \E n \in Nodes : \E h \in handlers[n] : BroadcastReply(n, h)

Next ==
    \/ Propagate
    \/ \E n \in Nodes : Read(n)
    \/ \E n \in Nodes : \E topology \in TopologyInputs(n) :
          TopologyStore(n, topology)
    \/ \E n \in Nodes : \E topology \in TopologyInputs(n) :
          TopologyPanic(n, topology)

Spec == Init /\ [][Next]_vars

\* ----------------------------------------------------------------- liveness
\* A relay whose timers keep firing while a node has something to propagate
\* or a handler to wake, and whose network fails finitely many RPCs.
LiveScenario ==
    [peers |-> Chain, rounds |-> 0, failures |-> MaxFailures,
     broadcasts |-> MaxBroadcasts - 1, reads |-> 0, topologies |-> 0,
     idle |-> TRUE]

AllNodes == {"n1", "n2", "n3"}

AllLinks == {l \in AllNodes \X AllNodes : l[1] # l[2]}

\* Every timer task and every handler that can take a step eventually takes
\* it, and a request or reply the network does not fail is delivered.
Fairness ==
    /\ \A n \in AllNodes :
          /\ WF_vars(n \in Nodes /\ StartRound(n))
          /\ WF_vars(n \in Nodes /\ SendRpc(n))
          /\ WF_vars(n \in Nodes /\ AwaitRpcOk(n))
          /\ WF_vars(n \in Nodes /\ AwaitRpcErr(n))
          /\ WF_vars(n \in Nodes /\ Notify(n))
          /\ WF_vars(n \in Nodes /\ \E h \in handlers[n] :
                                      BroadcastGeneration(n, h))
          /\ WF_vars(n \in Nodes /\ \E h \in handlers[n] : BroadcastReply(n, h))
    /\ \A l \in AllLinks :
          /\ WF_vars(l \in Links /\ UpdateInsert(l[1], l[2]))
          /\ WF_vars(l \in Links /\ UpdateReplyOk(l[1], l[2]))

SpecLive == Start(LiveScenario) /\ [][Propagate]_vars /\ Fairness

\* The nodes a value held by a can reach by transfers, a included.
RECURSIVE ReachableFrom(_, _)
ReachableFrom(set, k) ==
    IF k = 0 THEN set
    ELSE ReachableFrom(set \cup UNION {Range(RuntimeNeighbours(n)) : n \in set},
                       k - 1)

Reachable(a) == ReachableFrom({a}, Cardinality(Nodes))

\* What a Read request at n is answered with.
ReadResult(n) == TakeAll(s[n])

(* C1: every value in the store of a node (so every value a Broadcast request
   submitted there) is eventually in the Read result of every node reachable
   from it, when the timers keep running and the network fails finitely often. *)
C1_Convergence ==
    \A a \in AllNodes : \A v \in Values :
        (a \in Nodes /\ v \in s[a].messages)
            ~> (\A m \in Reachable(a) : v \in Range(ReadResult(m)))

\* C1 is reached: a value held by n1 has crossed the relay to n3 in a run
\* in which the network failed an RPC.
C1_Witness ==
    /\ env.failures > 0
    /\ \E v \in s["n1"].messages : v \in Range(ReadResult("n3"))

\* ------------------------------------------------------------------- safety
\* Position of a handler's value in the log of its node.
LogPosition(n, h) == IndexOf(s[n].messages_list, h.message)

(* C2: a Broadcast handler replies only when the notified generation is above
   the baseline it read, a round numbered above that baseline has resolved all
   its RPCs, and an Update carrying the log position of its value has been
   sent to every neighbour. *)
C2_RoundWait ==
    [][\A n \in Nodes : \A h \in handlers[n] \ handlers'[n] :
          h.pc = "waiting" =>
             /\ sender[n] > h.generation
             /\ lastDone[n] > h.generation
             /\ \A m \in Range(RuntimeNeighbours(n)) :
                   LogPosition(n, h) \in attempted[<<n, m>>]]_vars

\* C2 is reached: the only Broadcast request of a run between two peers has
\* been answered, after an earlier round of that node was abandoned.
C2_Witness ==
    /\ peers = Pair
    /\ env.broadcasts = 1
    /\ \A n \in Nodes : handlers[n] = {}
    /\ \E n \in Nodes : s[n].messages # {} /\ generation[n] > sender[n]

\* The RPCs of the round in progress at n that have resolved, either way.
AllResolved(n) ==
    /\ task[n].pc = "await"
    /\ \A i \in 1..Len(task[n].rpcs) :
          net[<<n, task[n].rpcs[i].n>>].st \in {"ok", "fail"}

(* C3: a round that ends with all its transfer RPCs resolved, whatever their
   outcomes, raises the notified generation by exactly one. *)
C3_RoundEndNotifies ==
    [][\A n \in Nodes :
          (AllResolved(n) /\ task'[n].pc = "sleep")
              => sender'[n] = sender[n] + 1]_vars

\* Link l carries a newly snapshotted Update after this step.
Sends(l) == net'[l].st = "sent" /\ net[l] # net'[l]

\* The log positions an Update record covers.
Positions(rpc) == (rpc.prev_len + 1)..(rpc.prev_len + Len(rpc.messages))

(* C4: while no transfer RPC has failed, every Update sent on a link is the
   segment of the sender's log that starts where the previous Update on that
   link ended, and shares no log position with any earlier Update on it. *)
C4_NoDuplication ==
    [][\A l \in Links :
          (Sends(l) /\ env.failures = 0) =>
             /\ Positions(net'[l]) \cap attempted[l] = {}
             /\ net'[l].prev_len =
                   (IF net[l].st = "none" THEN 0
                    ELSE net[l].prev_len + Len(net[l].messages))
             /\ net'[l].messages =
                   SubSeq(s[l[1]].messages_list, net'[l].prev_len + 1,
                          net'[l].prev_len + Len(net'[l].messages))]_vars

\* C4 is reached: with no failure so far, a second non-empty Update has been
\* sent on a link whose first non-empty Update was acknowledged.
C4_Witness ==
    \E l \in Links :
        /\ env.failures = 0
        /\ net[l].st = "sent"
        /\ net[l].prev_len > 0
        /\ net[l].messages # <<>>

(* C5: while the latest transfer to a neighbour stands failed, the sender's
   watermark for it is the one the failed delta was cut at; and the next delta
   to it starts at that index, begins with the failed delta and runs to the
   end of the log. *)
C5_RetryOnFailure ==
    [][\A l \in Links :
          /\ net'[l].st = "fail" =>
                Watermark(s'[l[1]], l[2]) = net'[l].prev_len
          /\ (net[l].st = "fail" /\ Sends(l)) =>
                /\ net'[l].prev_len = net[l].prev_len
                /\ IsPrefix(net[l].messages, net'[l].messages)
                /\ net'[l].prev_len + Len(net'[l].messages)
                      = Len(s[l[1]].messages_list)
                /\ net'[l].messages =
                      SubSeq(s[l[1]].messages_list, net'[l].prev_len + 1,
                             Len(s[l[1]].messages_list))]_vars

\* C5 is reached: the delta sent after a failed transfer carries values
\* submitted since the failed snapshot behind values it already held.
C5_Witness ==
    \E l \in Links :
        /\ outage[l].fails > 0
        /\ net[l].st = "sent"
        /\ outage[l].due # {}
        /\ Len(net[l].messages) > Cardinality(outage[l].due)

(* C6: when the transfer that follows one or more consecutive failed transfers
   on a link is acknowledged, every value submitted at the sender during the
   outage is in the receiver's store and occurs exactly once in its Read
   result. *)
C6_OutageRecovery ==
    \A l \in Links :
        (net[l].st = "ok" /\ outage[l].fails >= 1) =>
            \A v \in outage[l].due :
                /\ v \in s[l[2]].messages
                /\ Count(ReadResult(l[2]), v) = 1

\* C6 is reached: a transfer is acknowledged after two failed rounds during
\* which a value was submitted at the sender.
C6_Witness ==
    \E l \in Links :
        /\ net[l].st = "ok"
        /\ outage[l].fails = 2
        /\ outage[l].due # {}

(* C7: in every store the program reaches, inserting a value twice gives the
   same set, the same log and the same position of the value as inserting it
   once, and inserting a value the store holds changes nothing. *)
C7_IdempotentInsert ==
    \A n \in Nodes : \A v \in Values :
        LET once == Insert(s[n], v)
            twice == Insert(once, v)
        IN  /\ TakeAll(twice) = TakeAll(once)
            /\ twice.messages = once.messages
            /\ IndexOf(TakeAll(twice), v) = IndexOf(TakeAll(once), v)
            /\ Count(TakeAll(twice), v) = 1
            /\ v \in s[n].messages => once = s[n]

\* C7 is reached: two Broadcast handlers of one node have inserted the same
\* value, and the log of that node holds it once.
C7_Witness ==
    \E n \in Nodes : \E h1, h2 \in handlers[n] :
        /\ h1 # h2
        /\ h1.message = h2.message
        /\ Len(s[n].messages_list) = 1

(* C8: the messages of a read_ok reply are the values handed to insert at that
   node before the snapshot, each once, in the order of their first insert;
   they include the value of every Broadcast handler still in progress. *)
C8_ReadSnapshot ==
    [][\A n \in Nodes :
          (env'.reads = env.reads + 1 /\ reply'.node = n) =>
             /\ reply'.type = "read_ok"
             /\ reply'.messages = inserted[n]
             /\ \A v \in Values : Count(reply'.messages, v) <= 1
             /\ \A h \in handlers[n] : h.message \in Range(reply'.messages)]_vars

\* C8 is reached: a read_ok reply lists two values, the larger first, one of
\* them received in an Update.
C8_Witness ==
    /\ reply.type = "read_ok"
    /\ Len(reply.messages) = 2
    /\ reply.messages[1] > reply.messages[2]
    /\ env.broadcasts = 2
    /\ \E n \in Nodes : handlers[n] # {} /\ n # reply.node

(* C9: no Topology request makes its handler fail. *)
C9_TopologyNeverFails == reply.type # "panic"

(* C10: when a round ends, every neighbour whose own RPC of that round was
   acknowledged has had update_node applied: its watermark is the snapshot
   watermark plus the delta length. *)
C10_AckedNeighbourAdvanced ==
    [][\A n \in Nodes :
          (task[n].pc = "await" /\ task'[n].pc = "sleep") =>
             \A i \in 1..Len(task[n].rpcs) :
                 LET r == task[n].rpcs[i]
                 IN  net[<<n, r.n>>].st = "ok" =>
                        Watermark(s'[n], r.n) = r.prev_len + r.len]_vars

(* C11: a watermark of already_send changes only in the update_node that
   follows the acknowledged Update RPC the round in progress sent to that
   neighbour, and then grows by the length of that delta; no other step
   changes any watermark. *)
C11_WatermarkOnlyByAck ==
    [][\A n \in Nodes : \A m \in Nodes :
          Watermark(s'[n], m) # Watermark(s[n], m) =>
             /\ task[n].pc = "await"
             /\ task[n].i <= Len(task[n].rpcs)
             /\ <<n, m>> \in Links
             /\ LET r == task[n].rpcs[task[n].i]
                IN  /\ r.n = m
                    /\ net[<<n, m>>].st = "ok"
                    /\ net[<<n, m>>].prev_len = r.prev_len
                    /\ Len(net[<<n, m>>].messages) = r.len
                    /\ Watermark(s'[n], m) = Watermark(s[n], m) + r.len]_vars

\* C11 is reached: a watermark has been raised twice, by one value each time,
\* in a run in which an RPC failed.
C11_Witness ==
    \E l \in Links :
        /\ env.failures > 0
        /\ net[l].st = "ok"
        /\ net[l].prev_len = 1
        /\ Watermark(s[l[1]], l[2]) = 2

\* The log of st holds no value twice and holds exactly the values of the set.
StoreInvariant(st) ==
    /\ \A v \in Values : Count(st.messages_list, v) <= 1
    /\ Range(st.messages_list) = st.messages

(* C12: in every state the log of every node has no duplicates and its
   elements are the set messages; and every step leaves the earlier log as a
   prefix of the later one. *)
C12_ValueStore ==
    [][\A n \in Nodes :
          /\ StoreInvariant(s[n])
          /\ StoreInvariant(s'[n])
          /\ IsPrefix(s[n].messages_list, s'[n].messages_list)]_vars

\* C12 is reached: a node that holds two values is handling an Update that
\* carries the value one of its own Broadcast handlers inserted.
C12_Witness ==
    \E l \in Links : \E h \in handlers[l[2]] :
        /\ net[l].st = "handling"
        /\ h.message \in Range(net[l].messages)
        /\ Len(s[l[2]].messages_list) = 2

(* C13: every watermark of already_send is at most the length of the log, so
   the slice take_node cuts is within bounds. *)
C13_WatermarkInBounds ==
    \A n \in Nodes : \A m \in Nodes :
        /\ Watermark(s[n], m) <= Len(s[n].messages_list)
        /\ Watermark(s[n], m) >= 0

\* C13 is reached: a watermark raised in two steps stands at the end of a log
\* of two values.
C13_Witness ==
    \E l \in Links :
        /\ Watermark(s[l[1]], l[2]) = 2
        /\ Len(s[l[1]].messages_list) = 2
        /\ net[l].prev_len = 1
        /\ net[l].st = "ok"
        /\ task[l[1]].pc = "sleep"

(* C14: every value at a log position below the watermark a node keeps for a
   neighbour is in that neighbour's store. *)
C14_CursorSoundness ==
    \A l \in Links :
        \A i \in 1..Watermark(s[l[1]], l[2]) :
            /\ i <= Len(s[l[1]].messages_list)
            /\ s[l[1]].messages_list[i] \in s[l[2]].messages

\* C14 is reached: a watermark counts two values after a transfer to that
\* neighbour had failed.
C14_Witness ==
    \E l \in Links :
        /\ Watermark(s[l[1]], l[2]) = 2
        /\ outage[l].fails > 0
        /\ net[l].st = "ok"

\* The reply_ok of an Update handler of node n is in progress.
UpdateReplying(n) == \E l \in Links : l[2] = n /\ net[l].st = "handling"

(* C15: while a node is sending a reply, the mutex around its State is not
   held. *)
C15_NoLockAcrossNetwork ==
    \A n \in Nodes : UpdateReplying(n) => LockFree(n)

(* C16: a round leaves its first loop only after an Update RPC has been
   attempted for the last neighbour of neighbours(), so that no neighbour is
   skipped. *)
C16_OneRpcPerNeighbour ==
    [][\A n \in Nodes :
          (task[n].pc = "send" /\ task'[n].pc # "send") =>
              task[n].i = Len(RuntimeNeighbours(n))]_vars

(* C17: the step that handles a received Update puts every value of the
   payload into the receiver's store and changes nothing else of the node: no
   watermark, not neighbours, no generation, no round and no other RPC; and
   the handler then leaves with one acknowledgment, delivered or lost. *)
C17_UpdateFrame ==
    [][\A l \in Links :
          /\ (net[l].st = "sent" /\ net'[l].st = "handling") =>
                /\ s'[l[2]].messages =
                      s[l[2]].messages \cup Range(net[l].messages)
                /\ Range(s'[l[2]].messages_list) = s'[l[2]].messages
                /\ s'[l[2]].already_send = s[l[2]].already_send
                /\ s'[l[2]].neighbours = s[l[2]].neighbours
                /\ \A n \in Nodes \ {l[2]} : s'[n] = s[n]
                /\ net'[l].messages = net[l].messages
                /\ \A k \in Links \ {l} : net'[k] = net[k]
                /\ UNCHANGED <<generation, sender, task, attempted>>
          /\ (net[l].st = "handling" /\ net'[l] # net[l]) =>
                /\ net'[l].st \in {"ok", "fail"}
                /\ \A k \in Links \ {l} : net'[k] = net[k]
                /\ UNCHANGED <<s, generation, sender, task, attempted>>]_vars

\* C17 is reached: an Update of two values has been acknowledged by a node
\* that keeps a watermark of its own.
C17_Witness ==
    \E l \in Links :
        /\ net[l].st = "ok"
        /\ Len(net[l].messages) = 2
        /\ s[l[2]].already_send # <<>>
        /\ s[l[2]].messages_list = net[l].messages

(* C18: the generation counter changes only in the step that ends a round
   whose RPCs have all resolved, and then by exactly one. *)
C18_GenerationAtRoundEnd ==
    [][\A n \in Nodes :
          generation'[n] # generation[n] =>
             /\ AllResolved(n)
             /\ task'[n].pc = "sleep"
             /\ generation'[n] = generation[n] + 1]_vars

(* C19: a round starts only while the timer task of the node is asleep, and
   whenever update_node runs, the stored watermark of the neighbour equals the
   prev_len of the snapshot, so it becomes prev_len + len. *)
C19_CasNeverSkips ==
    [][\A n \in Nodes :
          /\ task'[n].next_generation > task[n].next_generation =>
                task[n].pc = "sleep"
          /\ (task[n].pc = "await" /\ task'[n].pc = "await"
                /\ task'[n].i = task[n].i + 1) =>
                LET r == task[n].rpcs[task[n].i]
                IN  /\ Watermark(s[n], r.n) = r.prev_len
                    /\ Watermark(s'[n], r.n) = r.prev_len + r.len]_vars

\* C19 is reached: update_node has run for a delta cut at a watermark above 0,
\* and the round that sent it is still in its second loop.
C19_Witness ==
    \E l \in Links :
        /\ task[l[1]].pc = "await"
        /\ task[l[1]].i > 1
        /\ task[l[1]].rpcs[1].prev_len = 1
        /\ task[l[1]].rpcs[1].len = 1
        /\ task[l[1]].rpcs[1].n = l[2]
        /\ Watermark(s[l[1]], l[2]) = 2

(* C20: with timers that keep firing, fair scheduling and finitely many failed
   RPCs, every Broadcast handler in progress eventually replies; and the step
   in which a waiting handler replies changes no State, generation, watch
   value, round or RPC. *)
C20_AckLiveness ==
    /\ \A n \in AllNodes : \A v \in Values :
          (n \in Nodes /\ \E h \in handlers[n] : h.message = v)
              ~> (\A h \in handlers[n] : h.message # v)
    /\ [][\A n \in Nodes : \A h \in handlers[n] \ handlers'[n] :
             h.pc = "waiting" =>
                UNCHANGED <<s, generation, sender, task, net>>]_vars

\* C20 is reached: the Broadcast request of n1 has been answered, and it took
\* a second round of n1 to wake its handler.
C20_Witness ==
    /\ env.broadcasts = 1
    /\ s["n1"].messages # {}
    /\ \A n \in Nodes : handlers[n] = {}
    /\ sender["n1"] >= 2

====
